---- MODULE Spec2Model ----
(***************************************************************************)
(* State-machine model of app.py, the Streamlit object-detection script.   *)
(*                                                                         *)
(* The script is re-executed top to bottom on every user interaction.  One *)
(* run is modelled as a program counter walking through the statements of  *)
(* the active branch.  The process-wide state is the st.cache_resource     *)
(* entry of load_model and the wall clock.  The detector (model.predict),  *)
(* the capture device (cv2.VideoCapture) and the UI are external: their    *)
(* answers are drawn nondeterministically from small sets, and each of the *)
(* calls made inside a frame iteration may raise.                          *)
(*                                                                         *)
(* Units: time in seconds; the confidence slider in hundredths; a          *)
(* detection's confidence in sixteenths (an exactly representable binary   *)
(* fraction, as float(bbox.conf) is); box coordinates in half pixels (so   *)
(* that int() has something to truncate).                                  *)
(***************************************************************************)
EXTENDS Integers, Sequences, FiniteSets, TLC

\* ---------------------------------------------------------------- bounds
MaxClock == 1200
TickStep == 300
MaxFrames == 2
MaxBoxes == 2
MaxResults == 2

\* ------------------------------------------------------ program constants
\* @st.cache_resource(ttl=600)
TTL == 600

menu_options == {"Home", "Live Detection", "About", "Developers"}
Sources == {"Image", "Video"}
\* values of st.slider("Model Confidence Threshold", 0.1, 1.0, 0.5), hundredths
Confidences == {10, 50, 100}
\* the absent model handle / an unset Python name
None == <<>>

\* class names carried by the weights (model.names), indexed by class id
names == [c \in {0, 1} |-> IF c = 0 THEN "person" ELSE "bicycle"]

\* the boxes a detector may report: class id, confidence in sixteenths,
\* xyxy in half pixels
Boxes ==
    { [cls |-> 0, conf |-> 3,  xyxy |-> <<21, 20, 61, 81>>],
      [cls |-> 1, conf |-> 14, xyxy |-> <<-3, 45, 30, 90>>] }

\* all sequences over S of length at most n
RECURSIVE SeqsUpTo(_, _)
SeqsUpTo(S, n) ==
    IF n = 0 THEN { <<>> }
    ELSE LET shorter == SeqsUpTo(S, n - 1)
         IN  shorter \cup { Append(s, x) : s \in { t \in shorter : Len(t) = n - 1 }, x \in S }

\* one Results object is the list of its boxes
ResultObjects == SeqsUpTo(Boxes, MaxBoxes)
\* predict on a single frame returns a list holding one Results object
PredictOutputs == { <<r>> : r \in ResultObjects }
\* decoded frame sizes (width, height)
Dims == { <<64, 48>>, <<32, 32>> }

VARIABLES
    clock,        \* wall clock, seconds
    cache,        \* st.cache_resource entry of load_model: None or <<[value, at]>>
    loads,        \* how many times YOLO('weights/yolov8n.pt') was executed
    pc,           \* position of the running script
    ui,           \* widget values of this run
    env,          \* what the source of this run will deliver
    model,        \* the global `model` of this run: None or <<handle>>
    cap,          \* capture handle: "none", "open", "closed", "released"
    capOpens,     \* cv2.VideoCapture(...) calls of this run
    capReleases,  \* cap.release() calls of this run
    frame,        \* the frame of the current iteration, or None
    results,      \* return value of the last model.predict
    detected_objects, \* return value of the last process_results kept by the script
    nRead,        \* successful cap.read() calls of this run
    nPredict,     \* model.predict calls of this run
    nAnnot,       \* process_results calls of this run
    nDisplay,     \* st.image / stframe.image calls of this run
    lastCall,     \* arguments of the last model.predict call
    shown,        \* argument of the last image display call
    headers,      \* st.write("Detected Objects:") calls of this run
    summary,      \* the per-detection st.write lines of this run
    errors,       \* st.error messages of this run
    prIn,         \* input of the process_results harness
    prOut         \* output of the process_results harness

vars == << clock, cache, loads, pc, ui, env, model, cap, capOpens, capReleases,
           frame, results, detected_objects, nRead, nPredict, nAnnot, nDisplay,
           lastCall, shown, headers, summary, errors, prIn, prOut >>

procVars == << clock, cache, loads >>
harnessVars == << prIn, prOut >>
capVars == << cap, capOpens, capReleases >>
countVars == << nRead, nPredict, nAnnot, nDisplay >>
outVars == << shown, headers, summary, errors >>

\* ------------------------------------------------------- process_results
\* int(v) for a coordinate given in half pixels: truncation toward zero
ToInt(v) == IF v >= 0 THEN v \div 2 ELSE -((-v) \div 2)

\* f"{conf:.2f}" for conf given in sixteenths: the nearest hundredth of the
\* exact value, ties to even (Python's correctly rounded float formatting)
Format2(conf) ==
    LET n == conf * 100
        q == n \div 16
        r == n % 16
    IN  IF 2 * r > 16 THEN q + 1
        ELSE IF 2 * r < 16 THEN q
        ELSE IF q % 2 = 0 THEN q ELSE q + 1

\* cv2.rectangle(image, (x1, y1), (x2, y2), (0, 255, 0), 2)
Rectangle(image, p1, p2) ==
    [image EXCEPT !.draws = Append(@, [op |-> "rectangle", at |-> p1, to |-> p2, text |-> <<>>])]

\* cv2.putText(image, f"{label} ({conf:.2f})", (x1, y1 - 10), ...)
PutText(image, label, conf, org) ==
    [image EXCEPT !.draws = Append(@, [op |-> "putText", at |-> org, to |-> <<>>,
                                        text |-> <<label, Format2(conf)>>])]

\* the tuple appended for one bbox
DetectedObject(bbox) ==
    [label |-> names[bbox.cls],
     conf  |-> bbox.conf,
     box   |-> <<ToInt(bbox.xyxy[1]), ToInt(bbox.xyxy[2]),
                 ToInt(bbox.xyxy[3]), ToInt(bbox.xyxy[4])>>]

\* body of the inner loop for one bbox: append, rectangle, putText
AnnotateBoxMissingLabel(acc, bbox) ==
    LET obj == DetectedObject(bbox)
    IN  [objs  |-> Append(acc.objs, obj),
         image |-> Rectangle(acc.image, <<obj.box[1], obj.box[2]>>, <<obj.box[3], obj.box[4]>>)]

AnnotateBox(acc, bbox) ==
    LET obj == DetectedObject(bbox)
    IN  [objs  |-> Append(acc.objs, obj),
         image |-> PutText(Rectangle(acc.image, <<obj.box[1], obj.box[2]>>,
                                     <<obj.box[3], obj.box[4]>>),
                           obj.label, obj.conf, <<obj.box[1], obj.box[2] - 10>>)]

\* for bbox in result.boxes
RECURSIVE AnnotateBoxes(_, _)
AnnotateBoxes(acc, boxes) ==
    IF boxes = <<>> THEN acc
    ELSE AnnotateBoxes(AnnotateBox(acc, Head(boxes)), Tail(boxes))

\* for result in results
RECURSIVE AnnotateResults(_, _)
AnnotateResults(acc, res) ==
    IF res = <<>> THEN acc
    ELSE AnnotateResults(AnnotateBoxes(acc, Head(res)), Tail(res))

\* process_results(results, image): the returned list and the mutated image
process_results(res, image) ==
    AnnotateResults([objs |-> <<>>, image |-> image], res)


\* ------------------------------------------------------------ load_model
\* whether st.cache_resource(ttl=600) still serves the stored entry at `now`
CacheValidNever(entry, now) == FALSE

CacheValid(entry, now) ==
    /\ entry # None
    /\ now - entry[1].at < TTL

\* ----------------------------------------------------------- the widgets
\* the widget values one run can see; a name the branch never assigns is None
UIChoices ==
    { [selected_option |-> "Home", source |-> s, confidence |-> <<c>>,
       uploaded |-> u, run_webcam |-> FALSE] :
          s \in Sources, c \in Confidences, u \in BOOLEAN }
    \cup
    { [selected_option |-> "Live Detection", source |-> "", confidence |-> None,
       uploaded |-> FALSE, run_webcam |-> w] : w \in BOOLEAN }
    \cup
    { [selected_option |-> o, source |-> "", confidence |-> None,
       uploaded |-> FALSE, run_webcam |-> FALSE] :
          o \in menu_options \ {"Home", "Live Detection"} }

\* what the source delivers: whether the capture opens, how many reads
\* succeed before one fails, and the size of the decoded frames
StreamChoices ==
    { [opens |-> TRUE, frames |-> k, dims |-> d] : k \in 0..MaxFrames, d \in Dims }
    \cup
    { [opens |-> FALSE, frames |-> 0, dims |-> d] : d \in Dims }

\* an uploaded image is one decoded frame and no capture
ImageChoices == { [opens |-> FALSE, frames |-> 0, dims |-> d] : d \in Dims }

NoUI == [selected_option |-> "About", source |-> "", confidence |-> None,
         uploaded |-> FALSE, run_webcam |-> FALSE]
NoEnv == [opens |-> FALSE, frames |-> 0, dims |-> <<32, 32>>]

\* the sources the widget values u select
EnvChoices(u) ==
    IF u.selected_option = "Home" /\ u.uploaded
        THEN IF u.source = "Image" THEN ImageChoices ELSE StreamChoices
    ELSE IF u.selected_option = "Live Detection" /\ u.run_webcam
        THEN StreamChoices
    ELSE { NoEnv }
BlankImage(d) == [idx |-> 0, dims |-> d, draws |-> <<>>]

\* the guards of the three detection branches
ImageGuard ==
    /\ ui.selected_option = "Home"
    /\ ui.source = "Image"
    /\ ui.uploaded
    /\ model # None

VideoGuardNoModelCheck ==
    /\ ui.selected_option = "Home"
    /\ ui.source = "Video"
    /\ ui.uploaded

VideoGuard ==
    /\ ui.selected_option = "Home"
    /\ ui.source = "Video"
    /\ ui.uploaded
    /\ model # None

WebcamGuard ==
    /\ ui.selected_option = "Live Detection"
    /\ ui.run_webcam
    /\ model # None

\* which frame loop the run is in
Mode ==
    IF ui.selected_option = "Live Detection" THEN "webcam"
    ELSE IF ui.source = "Video" THEN "video"
    ELSE "image"

\* the conf keyword of model.predict: conf=confidence in the image and the
\* video branch, not passed in the webcam branch
PredictConf(mode) == IF mode = "webcam" THEN None ELSE ui.confidence

\* what a failed read reports before the break
ReadFailErrorsBoth(mode) == {"Failed to capture image."}

ReadFailErrors(mode) ==
    IF mode = "webcam" THEN {"Failed to capture image."} ELSE {}

\* the statement that follows the image display call
AfterDisplayAlwaysWrite(mode) == "write"

AfterDisplayBreak(mode) == IF mode = "image" THEN "write" ELSE "release"

AfterDisplayReinfer(mode) == IF mode = "image" THEN "write" ELSE "predict"

AfterDisplay(mode) == IF mode = "image" THEN "write" ELSE "loop"

\* the lines st.write emits for the detected objects, in order
SummaryLinesSkipFirst(objs) ==
    [i \in 1..(Len(objs) - 1) |-> <<objs[i + 1].label, Format2(objs[i + 1].conf)>>]

SummaryLines(objs) ==
    [i \in 1..Len(objs) |-> <<objs[i].label, Format2(objs[i].conf)>>]

\* ---------------------------------------------------------------- state
InitHarness ==
    /\ prIn = [results |-> <<>>, image |-> BlankImage(<<32, 32>>)]
    /\ prOut = None

InitMain ==
    /\ clock = 0
    /\ cache = None
    /\ loads = 0
    /\ pc = "idle"
    /\ ui = NoUI
    /\ env = NoEnv
    /\ model = None
    /\ cap = "none"
    /\ capOpens = 0
    /\ capReleases = 0
    /\ frame = None
    /\ results = None
    /\ detected_objects = None
    /\ nRead = 0
    /\ nPredict = 0
    /\ nAnnot = 0
    /\ nDisplay = 0
    /\ lastCall = None
    /\ shown = None
    /\ headers = 0
    /\ summary = <<>>
    /\ errors = {}

Init == InitMain /\ InitHarness

\* time passes
Tick ==
    /\ clock + TickStep <= MaxClock
    /\ clock' = clock + TickStep
    /\ UNCHANGED << cache, loads, pc, ui, env, model, capVars, frame, results,
                    detected_objects, countVars, lastCall, outVars, harnessVars >>

\* a user interaction re-executes the script from the top with fresh names
StartRun ==
    /\ pc \in {"idle", "done", "aborted"}
    /\ \E u \in UIChoices :
       \E e \in EnvChoices(u) :
          /\ ui' = u
          /\ env' = e
    /\ pc' = "load_model"
    /\ model' = None
    /\ cap' = "none"
    /\ capOpens' = 0
    /\ capReleases' = 0
    /\ frame' = None
    /\ results' = None
    /\ detected_objects' = None
    /\ nRead' = 0
    /\ nPredict' = 0
    /\ nAnnot' = 0
    /\ nDisplay' = 0
    /\ lastCall' = None
    /\ shown' = None
    /\ headers' = 0
    /\ summary' = <<>>
    /\ errors' = {}
    /\ UNCHANGED << procVars, harnessVars >>

\* model = load_model(), served from the cache
LoadModelCached ==
    /\ pc = "load_model"
    /\ CacheValid(cache, clock)
    /\ model' = cache[1].value
    /\ pc' = "menu"
    /\ UNCHANGED << procVars, ui, env, capVars, frame, results, detected_objects,
                    countVars, lastCall, outVars, harnessVars >>

\* model = load_model(), the body runs: YOLO(...) returns a handle or raises
LoadModelRun ==
    /\ pc = "load_model"
    /\ ~CacheValid(cache, clock)
    /\ \E ok \in BOOLEAN :
          LET value == IF ok THEN <<loads + 1>> ELSE None
          IN  /\ model' = value
              /\ cache' = << [value |-> value, at |-> clock] >>
              /\ errors' = IF ok THEN errors ELSE errors \cup {"Error loading YOLO model"}
    /\ loads' = loads + 1
    /\ pc' = "menu"
    /\ UNCHANGED << clock, ui, env, capVars, frame, results, detected_objects,
                    countVars, lastCall, shown, headers, summary, harnessVars >>

\* the menu and the branch guards; the image branch decodes the upload
Dispatch ==
    /\ pc = "menu"
    /\ IF ImageGuard
          THEN /\ frame' = [idx |-> 1, dims |-> env.dims, draws |-> <<>>]
               /\ pc' = "predict"
          ELSE /\ frame' = frame
               /\ pc' = IF VideoGuard \/ WebcamGuard THEN "open" ELSE "final"
    /\ UNCHANGED << procVars, ui, env, model, capVars, results, detected_objects,
                    countVars, lastCall, outVars, harnessVars >>

\* cap = cv2.VideoCapture(...)
OpenCapture ==
    /\ pc = "open"
    /\ capOpens' = capOpens + 1
    /\ cap' = IF env.opens THEN "open" ELSE "closed"
    /\ pc' = "loop"
    /\ UNCHANGED << procVars, ui, env, model, capReleases, frame, results,
                    detected_objects, countVars, lastCall, outVars, harnessVars >>

\* while cap.isOpened():
LoopTest ==
    /\ pc = "loop"
    /\ pc' = IF cap = "open" THEN "read" ELSE "release"
    /\ UNCHANGED << procVars, ui, env, model, capVars, frame, results,
                    detected_objects, countVars, lastCall, outVars, harnessVars >>

\* ret, frame = cap.read() with ret true
ReadFrame ==
    /\ pc = "read"
    /\ nRead < env.frames
    /\ nRead' = nRead + 1
    /\ frame' = [idx |-> nRead + 1, dims |-> env.dims, draws |-> <<>>]
    /\ pc' = "predict"
    /\ UNCHANGED << procVars, ui, env, model, capVars, results, detected_objects,
                    nPredict, nAnnot, nDisplay, lastCall, outVars, harnessVars >>

\* ret, frame = cap.read() with ret false: (st.error,) break
ReadFail ==
    /\ pc = "read"
    /\ nRead >= env.frames
    /\ frame' = None
    /\ errors' = errors \cup ReadFailErrors(Mode)
    /\ pc' = "release"
    /\ UNCHANGED << procVars, ui, env, model, capVars, results, detected_objects,
                    countVars, lastCall, shown, headers, summary, harnessVars >>

\* results = model.predict(frame[, conf=confidence])
Predict ==
    /\ pc = "predict"
    /\ model # None
    /\ \E out \in PredictOutputs : results' = out
    /\ lastCall' = [frame |-> frame, conf |-> PredictConf(Mode)]
    /\ nPredict' = nPredict + 1
    /\ pc' = "annotate"
    /\ UNCHANGED << procVars, ui, env, model, capVars, frame, detected_objects,
                    nRead, nAnnot, nDisplay, outVars, harnessVars >>

\* [detected_objects =] process_results(results, frame)
Annotate ==
    /\ pc = "annotate"
    /\ LET r == process_results(results, frame)
       IN  /\ frame' = r.image
           /\ detected_objects' = IF Mode = "image" THEN r.objs ELSE detected_objects
    /\ nAnnot' = nAnnot + 1
    /\ pc' = "display"
    /\ UNCHANGED << procVars, ui, env, model, capVars, results, nRead, nPredict,
                    nDisplay, lastCall, outVars, harnessVars >>

\* st.image(img_array, ...) / stframe.image(frame, ...)
Display ==
    /\ pc = "display"
    /\ shown' = frame
    /\ nDisplay' = nDisplay + 1
    /\ pc' = AfterDisplay(Mode)
    /\ UNCHANGED << procVars, ui, env, model, capVars, frame, results,
                    detected_objects, nRead, nPredict, nAnnot, lastCall, headers,
                    summary, errors, harnessVars >>

\* st.write("Detected Objects:") and one st.write per detected object
WriteSummary ==
    /\ pc = "write"
    /\ headers' = headers + 1
    /\ summary' = summary \o SummaryLines(detected_objects)
    /\ pc' = "final"
    /\ UNCHANGED << procVars, ui, env, model, capVars, frame, results,
                    detected_objects, countVars, lastCall, shown, errors, harnessVars >>

\* cap.release()
Release ==
    /\ pc = "release"
    /\ cap' = "released"
    /\ capReleases' = capReleases + 1
    /\ pc' = "final"
    /\ UNCHANGED << procVars, ui, env, model, capOpens, frame, results,
                    detected_objects, countVars, lastCall, outVars, harnessVars >>

\* if not model: st.error("Model not loaded. ...")
FinalCheck ==
    /\ pc = "final"
    /\ errors' = IF model = None THEN errors \cup {"Model not loaded"} ELSE errors
    /\ pc' = "done"
    /\ UNCHANGED << procVars, ui, env, model, capVars, frame, results,
                    detected_objects, countVars, lastCall, shown, headers, summary,
                    harnessVars >>

\* model.predict, process_results or the image display raises: nothing
\* catches it, the rest of the script is skipped
Raise ==
    /\ pc \in {"predict", "annotate", "display"}
    /\ pc' = "aborted"
    /\ UNCHANGED << procVars, ui, env, model, capVars, frame, results,
                    detected_objects, countVars, lastCall, outVars, harnessVars >>

\* one statement of the running script
ScriptStep ==
    \/ LoadModelCached
    \/ LoadModelRun
    \/ Dispatch
    \/ OpenCapture
    \/ LoopTest
    \/ ReadFrame
    \/ ReadFail
    \/ Predict
    \/ Annotate
    \/ Display
    \/ WriteSummary
    \/ Release
    \/ FinalCheck

Next ==
    \/ Tick
    \/ StartRun
    \/ ScriptStep
    \/ Raise

Spec == Init /\ [][Next]_vars

\* Termination of a run: the clock is read by load_model's cache only, so
\* the runs are followed at one instant; the script thread keeps executing
\* its statements once a run has started.
NextRun ==
    \/ StartRun
    \/ ScriptStep
    \/ Raise

FairSpec == Init /\ [][NextRun]_vars /\ WF_vars(ScriptStep)

\* ------------------------------------------- process_results on its own
\* the inputs process_results is applied to: any list of Results objects
\* and a frame without drawings
PRInputs ==
    { [results |-> r, image |-> BlankImage(d)] :
          r \in SeqsUpTo(ResultObjects, MaxResults), d \in Dims }

InitPR ==
    /\ InitMain
    /\ prIn \in PRInputs
    /\ prOut = None

\* detected_objects = process_results(results, image)
PRApply ==
    /\ prOut = None
    /\ prOut' = process_results(prIn.results, prIn.image)
    /\ UNCHANGED << procVars, pc, ui, env, model, capVars, frame, results,
                    detected_objects, countVars, lastCall, outVars, prIn >>

NextPR == PRApply

SpecPR == InitPR /\ [][NextPR]_vars

\* ------------------------------------------------------------ properties
\* the run is past `model = load_model()`
Loaded == pc \notin {"idle", "load_model"}
\* the run has ended, normally or by an uncaught exception
Ended == pc \in {"done", "aborted"}
\* the run is inside or past a video / webcam session
InStream == Loaded /\ Mode \in {"video", "webcam"} /\ capOpens > 0

\* the boxes of a list of Results objects, in iteration order
RECURSIVE Flatten(_)
Flatten(res) == IF res = <<>> THEN <<>> ELSE Head(res) \o Flatten(Tail(res))

\* b is v (half pixels) truncated toward zero
IsTruncation(b, v) ==
    IF v >= 0 THEN 2 * b <= v /\ v < 2 * b + 2
    ELSE v <= 2 * b /\ 2 * b - 2 < v

\* t (hundredths) is a nearest two-decimal value of c (sixteenths)
IsTwoDecimalsOf(t, c) ==
    /\ 2 * (16 * t - 100 * c) <= 16
    /\ 2 * (100 * c - 16 * t) <= 16

\* C1: in video and webcam mode the capture handle opened by the run is
\* released exactly once on every exit path, also when inference, annotation
\* or display raises: no run ends with an opened, never released handle.
C1_ReleasedOnEveryExit ==
    /\ capReleases <= capOpens
    /\ Ended => capReleases = capOpens

\* C2: when load_model returned None, whatever the menu selection and the
\* source, predict and process_results are never called, nothing is
\* displayed, no capture handle is opened, the run is not aborted, and at
\* its end the "Model not loaded" message has been emitted.
C2_AbsentModelInert ==
    (Loaded /\ model = None) =>
        /\ nPredict = 0
        /\ nAnnot = 0
        /\ nDisplay = 0
        /\ shown = None
        /\ capOpens = 0
        /\ pc \in {"menu", "final", "done"}
        /\ pc = "done" => "Model not loaded" \in errors

C2_Witness ==
    /\ pc = "done"
    /\ model = None
    /\ ui.selected_option = "Home"
    /\ ui.source = "Video"
    /\ ui.uploaded
    /\ "Model not loaded" \in errors

\* C3: every inference call, in image, video and webcam mode, is made on
\* the fresh frame of the current iteration and is handed the user's
\* selected confidence threshold, a value in [0.1, 1.0].
C3_ThresholdAlwaysPassed ==
    nPredict > 0 =>
        /\ lastCall.frame.idx = (IF Mode = "image" THEN 1 ELSE nRead)
        /\ lastCall.frame.draws = <<>>
        /\ Len(lastCall.conf) = 1
        /\ lastCall.conf = ui.confidence
        /\ lastCall.conf[1] \in 10..100

\* C4 as stated: over any sequence of runs the weights file is loaded at
\* most once.
C4_LoadedAtMostOnce == loads <= 1

\* C4 amended: the weights file is loaded at most once per ttl window of
\* 600 seconds; a run that starts while the cached entry is younger than
\* the ttl does not load and gets the cached handle or sentinel.
C4_LoadedOncePerTtl ==
    /\ [](loads * TTL <= clock + TTL)
    /\ [][(pc = "load_model" /\ pc' # "load_model"
             /\ cache # None /\ clock - cache[1].at < TTL)
          => (loads' = loads /\ cache' = cache /\ model' = cache[1].value)]_vars

C4_Witness ==
    /\ loads = 2
    /\ pc = "menu"
    /\ clock > cache[1].at
    /\ model = cache[1].value

\* C5 as stated: every frame displayed in video or webcam mode comes with
\* its textual detection list.
C5_TextListPerFrame ==
    (InStream /\ nDisplay > 0) => headers >= 1

\* C5 amended: in video and webcam mode each processed frame is handed to
\* the presentation layer as the annotated frame only (a rectangle and a
\* label per detection of that frame); no textual list is written.  The
\* list is written in image mode only, once per run.
C5_FrameOnlyInStreams ==
    /\ InStream =>
          /\ headers = 0
          /\ summary = <<>>
          /\ nDisplay > 0 => shown.idx = nDisplay
          /\ (nDisplay > 0 /\ pc = "loop") =>
                Len(shown.draws) = 2 * Len(Flatten(results))
    /\ (Mode = "image" /\ pc = "done" /\ nDisplay > 0) => headers = 1

C5_Witness ==
    /\ InStream
    /\ Mode = "video"
    /\ pc = "done"
    /\ nDisplay = 2
    /\ Len(shown.draws) = 4

\* C6: an image-mode run with a loaded model and an uploaded image makes
\* one pass with exactly one inference call; when it ends normally it has
\* displayed one frame of the decoded input's dimensions and written one
\* line per detection returned by the detector, in order, with the same
\* label and the confidence formatted to two decimals.
C6_ImageSinglePass ==
    ImageGuard =>
        /\ capOpens = 0
        /\ nDisplay <= nAnnot /\ nAnnot <= nPredict /\ nPredict <= 1
        /\ pc \in {"write", "final", "done"} =>
              /\ nPredict = 1 /\ nAnnot = 1 /\ nDisplay = 1
              /\ shown.idx = 1
              /\ shown.dims = env.dims
        /\ pc \in {"final", "done"} =>
              LET dets == Flatten(results)
              IN  /\ headers = 1
                  /\ Len(summary) = Len(dets)
                  /\ \A i \in 1..Len(dets) :
                        /\ summary[i][1] = names[dets[i].cls]
                        /\ IsTwoDecimalsOf(summary[i][2], dets[i].conf)

C6_Witness ==
    /\ ImageGuard
    /\ pc = "done"
    /\ Len(summary) = 2
    /\ summary[1] # summary[2]

\* C7: for a frame and results holding n detections in all, process_results
\* draws n rectangles and n labels, one of each per detection at that
\* detection's (integer) box, and returns n tuples carrying label,
\* confidence and box of the detections in order; with n = 0 the frame is
\* unchanged and the list empty.
C7_OneDrawPerDetection ==
    prOut # None =>
        LET dets == Flatten(prIn.results)
            n == Len(dets)
            draws == prOut.image.draws
        IN  /\ Len(prOut.objs) = n
            /\ Len(draws) = 2 * n
            /\ prOut.image.dims = prIn.image.dims
            /\ n = 0 => prOut.image = prIn.image
            /\ \A i \in 1..n :
                  LET o == prOut.objs[i]
                  IN  /\ o.label = names[dets[i].cls]
                      /\ o.conf = dets[i].conf
                      /\ \A j \in 1..4 : IsTruncation(o.box[j], dets[i].xyxy[j])
                      /\ draws[2 * i - 1].op = "rectangle"
                      /\ draws[2 * i - 1].at = <<o.box[1], o.box[2]>>
                      /\ draws[2 * i - 1].to = <<o.box[3], o.box[4]>>
                      /\ draws[2 * i].op = "putText"
                      /\ draws[2 * i].at = <<o.box[1], o.box[2] - 10>>
                      /\ draws[2 * i].text[1] = o.label
                      /\ IsTwoDecimalsOf(draws[2 * i].text[2], o.conf)

C7_Witness ==
    /\ prOut # None
    /\ Len(prIn.results) = 2
    /\ Len(prIn.results[1]) = 2
    /\ Len(prIn.results[2]) = 1
    /\ Len(prOut.objs) = 3
    /\ prOut.objs[1] # prOut.objs[2]

\* C8: a failed read ends the frame loop in the same iteration with no
\* inference, annotation or display for it; "Failed to capture image." is
\* emitted if and only if the source is the webcam, and a video run whose
\* read fails ends without any error message.
C8_FailedReadEndsLoop ==
    /\ []("Failed to capture image." \in errors => Mode = "webcam")
    /\ []((InStream /\ Mode = "video" /\ pc = "done") => errors = {})
    /\ [][(pc = "read" /\ pc' # "read" /\ nRead' = nRead)
          => /\ pc' = "release"
             /\ UNCHANGED << countVars, shown, lastCall, headers, summary >>
             /\ ("Failed to capture image." \in errors') <=> (Mode = "webcam")]_vars

C8_Witness ==
    /\ pc = "release"
    /\ Mode = "webcam"
    /\ nRead = 1
    /\ nDisplay = 1
    /\ "Failed to capture image." \in errors

\* C9: a video run with a loaded model terminates; on a source that
\* delivers zero frames it ends with no inference, no displayed frame and
\* no error message, and a run that reaches its end on a source of k frames
\* has made exactly k inference-annotate-display iterations.
C9_VideoTerminates ==
    /\ []((InStream /\ Mode = "video" /\ pc \in {"release", "final", "done"}) =>
             /\ nRead = env.frames
             /\ nPredict = env.frames
             /\ nAnnot = env.frames
             /\ nDisplay = env.frames
             /\ errors = {})
    /\ []((InStream /\ Mode = "video" /\ env.frames = 0) =>
             /\ nPredict = 0
             /\ shown = None
             /\ errors = {}
             /\ pc # "aborted")
    /\ (pc = "open" /\ Mode = "video" /\ env.frames = 0) ~> (pc = "done")
    /\ (pc = "open") ~> Ended

C9_Witness ==
    /\ InStream
    /\ Mode = "video"
    /\ pc = "done"
    /\ env.opens
    /\ env.frames = 0
    /\ cap = "released"

\* C10: in video and webcam mode the steps of a frame are strictly ordered
\* (read, inference, annotation, display), frame i+1 is read only after
\* frame i was displayed, at most one frame is in flight, and no frame is
\* inferred, annotated or displayed twice; at the loop head every frame
\* read so far has been inferred, annotated and displayed exactly once.
C10_StrictFrameOrder ==
    InStream =>
        /\ nDisplay <= nAnnot /\ nAnnot <= nPredict /\ nPredict <= nRead
        /\ nRead <= nDisplay + 1
        /\ pc \in {"loop", "read", "release", "final", "done"} => nDisplay = nRead
        /\ pc = "predict" => (nPredict = nRead - 1 /\ frame.draws = <<>>)
        /\ pc = "annotate" => (nPredict = nRead /\ nAnnot = nRead - 1)
        /\ pc = "display" => (nAnnot = nRead /\ nDisplay = nRead - 1)
        /\ nPredict > 0 => lastCall.frame.idx = nPredict
        /\ nDisplay > 0 => shown.idx = nDisplay
        /\ pc \in {"predict", "annotate", "display"} => frame.idx = nRead

C10_Witness ==
    /\ InStream
    /\ Mode = "webcam"
    /\ pc = "display"
    /\ nRead = 2
    /\ nDisplay = 1

====
